---- MODULE Spec2Model ----
(***************************************************************************)
(* State-machine model of the STRGRID energy token contract                *)
(* (strgrid_token/contracts/token/src/lib.rs).                             *)
(*                                                                         *)
(* The contract's storage is one record, `storage`; every entry point of   *)
(* the contract is an operator that runs the handler's statements in the   *)
(* order of the source and returns the storage as it stands when the       *)
(* handler returns or panics, together with the outcome.  Invoke is the    *)
(* host's invocation of an entry point: a panic discards the writes, so a  *)
(* failed call is a step that leaves every variable as it was.             *)
(*                                                                         *)
(* u64 values are kept to U64Bits bits.  An arithmetic overflow panics in  *)
(* a build with overflow checks and wraps in a build without them; the     *)
(* build is fixed in the initial state (overflow_checks).                  *)
(***************************************************************************)
EXTENDS Integers, FiniteSets, Sequences, TLC

VARIABLES storage, now, overflow_checks, last, nops, burned

vars == <<storage, now, overflow_checks, last, nops, burned>>

---------------------------------------------------------------------------
(* Bounds of the model *)

\* width of the model's u64
U64Bits == 12
\* amounts offered to the operations: 0..MaxAmount and U64_MAX
MaxAmount == 1
\* expiry_hours offered to mint: 0..MaxHours
MaxHours == 2
\* number of successful contract invocations in one behaviour
MaxOps == 5

---------------------------------------------------------------------------
(* Values *)

U64Mod == 2 ^ U64Bits

U64_MAX == U64Mod - 1

SECONDS_PER_HOUR == 3600

Address == {"a1", "a2"}

Amounts == (0 .. MaxAmount) \cup {U64_MAX}

Hours == 0 .. MaxHours

\* ledger timestamps the clock can show
Times == {0, SECONDS_PER_HOUR + 1}

Names == {"STRGRID"}

Decimals == {7}

Proofs == {"None", "Some"}

EmptyMap == [x \in {} |-> 0]

\* m with key k set to v (a storage set())
Put(m, k, v) == [x \in (DOMAIN m) \cup {k} |-> IF x = k THEN v ELSE m[x]]

---------------------------------------------------------------------------
(* u64 arithmetic: the wrapped value and whether the true result is out of  *)
(* range.  An out-of-range result panics when overflow_checks, else wraps.  *)

add(a, b) == [v |-> (a + b) % U64Mod, of |-> a + b >= U64Mod]

sub(a, b) == [v |-> (a - b + U64Mod) % U64Mod, of |-> a < b]

mul(a, b) == [v |-> (a * b) % U64Mod, of |-> a * b >= U64Mod]

Traps(x) == overflow_checks /\ x.of

---------------------------------------------------------------------------
(* Outcomes *)

\* the contract's error codes; any other failure is a panic or a host error
STRGRIDError ==
    {"NotAuthorized", "InvalidAmount", "InsufficientBalance", "GeneratorNotFound",
     "GeneratorInactive", "InsufficientCapacity", "TokenNotFound",
     "InsufficientAllowance", "AlreadyBurned"}

\* the handler returned: its writes stand in st
Return(st, ret) == [st |-> st, res |-> "Ok", ret |-> ret]

\* panic_with_error!, expect(), a failed require_auth or an arithmetic panic,
\* st being the storage as written so far
Panic(st, err) == [st |-> st, res |-> err, ret |-> 0]

---------------------------------------------------------------------------
(* Records *)

EnergyGenerator(address, capacity_kw, current_production, is_active, registration_date) ==
    [address |-> address, capacity_kw |-> capacity_kw,
     current_production |-> current_production, is_active |-> is_active,
     registration_date |-> registration_date]

EnergyToken(id, generator_id, amount_kwh, creation_timestamp, expiry_timestamp, is_consumed) ==
    [id |-> id, generator_id |-> generator_id, amount_kwh |-> amount_kwh,
     creation_timestamp |-> creation_timestamp,
     expiry_timestamp |-> expiry_timestamp, is_consumed |-> is_consumed]

TokenMetadata(name, symbol, decimals, total_supply) ==
    [name |-> name, symbol |-> symbol, decimals |-> decimals,
     total_supply |-> total_supply]

\* The storage before any call.  admin and metadata hold at most one value
\* (instance keys ADMIN and METADATA); generator and energy are the persistent
\* entries under GENERATOR and ENERGY_DATA; balance, allowance and total_supply
\* hold what a read with unwrap_or(0) gives (BALANCE, ALLOWANCE, TOTAL_SUPPLY).
EmptyStorage ==
    [admin |-> {},
     metadata |-> {},
     total_supply |-> 0,
     balance |-> [a \in Address |-> 0],
     allowance |-> [p \in Address \X Address |-> 0],
     generator |-> EmptyMap,
     energy |-> EmptyMap]

---------------------------------------------------------------------------
(* Read-only entry points *)

allowance(owner, spender) == storage.allowance[<<owner, spender>>]

balance_of(address) == storage.balance[address]

total_supply == storage.total_supply

\* defined on an initialized contract (unwrap)
get_metadata == CHOOSE m \in storage.metadata : TRUE

---------------------------------------------------------------------------
(* Entry points.  auth is the address that authorized the call.            *)

\* initialize without the has(ADMIN) guard
initialize_again(auth, admin, name, symbol, decimals) ==
    IF auth # admin THEN Panic(storage, "require_auth")
    ELSE Return([storage EXCEPT
                    !.admin = {admin},
                    !.metadata = {TokenMetadata(name, symbol, decimals, 0)},
                    !.total_supply = 0], 0)

initialize(auth, admin, name, symbol, decimals) ==
    IF storage.admin # {} THEN Panic(storage, "NotAuthorized")
    ELSE IF auth # admin THEN Panic(storage, "require_auth")
    ELSE Return([storage EXCEPT
                    !.admin = {admin},
                    !.metadata = {TokenMetadata(name, symbol, decimals, 0)},
                    !.total_supply = 0], 0)

\* register_generator keeping the current_production of a registered generator
register_generator_keep_production(auth, generator, capacity_kw) ==
    IF storage.admin = {} THEN Panic(storage, "expect: Not authorized")
    ELSE IF auth \notin storage.admin THEN Panic(storage, "require_auth")
    ELSE IF capacity_kw = 0 THEN Panic(storage, "InvalidAmount")
    ELSE Return([storage EXCEPT
                    !.generator = Put(@, generator,
                        EnergyGenerator(generator, capacity_kw,
                            IF generator \in DOMAIN storage.generator
                            THEN storage.generator[generator].current_production
                            ELSE 0,
                            TRUE, now))], 0)

\* register_generator that does not read ADMIN
register_generator_no_admin(auth, generator, capacity_kw) ==
    IF capacity_kw = 0 THEN Panic(storage, "InvalidAmount")
    ELSE Return([storage EXCEPT
                    !.generator = Put(@, generator,
                        EnergyGenerator(generator, capacity_kw, 0, TRUE, now))], 0)

\* register_generator without admin.require_auth()
register_generator_no_auth(auth, generator, capacity_kw) ==
    IF storage.admin = {} THEN Panic(storage, "expect: Not authorized")
    ELSE IF capacity_kw = 0 THEN Panic(storage, "InvalidAmount")
    ELSE Return([storage EXCEPT
                    !.generator = Put(@, generator,
                        EnergyGenerator(generator, capacity_kw, 0, TRUE, now))], 0)

register_generator(auth, generator, capacity_kw) ==
    IF storage.admin = {} THEN Panic(storage, "expect: Not authorized")
    ELSE IF auth \notin storage.admin THEN Panic(storage, "require_auth")
    ELSE IF capacity_kw = 0 THEN Panic(storage, "InvalidAmount")
    ELSE Return([storage EXCEPT
                    !.generator = Put(@, generator,
                        EnergyGenerator(generator, capacity_kw, 0, TRUE, now))], 0)

\* mint_energy_tokens without the is_active check
mint_energy_tokens_inactive(auth, generator, energy_amount_kwh, expiry_hours, oracle_proof) ==
    IF auth # generator THEN Panic(storage, "require_auth")
    ELSE IF generator \notin DOMAIN storage.generator
    THEN Panic(storage, "expect: Generator not found")
    ELSE
    LET energy_generator == storage.generator[generator]
        production == add(energy_generator.current_production, energy_amount_kwh)
        expiry_timestamp == add(now, mul(expiry_hours, SECONDS_PER_HOUR).v)
        new_balance == add(storage.balance[generator], energy_amount_kwh)
        new_supply == add(storage.total_supply, energy_amount_kwh)
    IN
    IF production.v > energy_generator.capacity_kw
    THEN Panic(storage, "InsufficientCapacity")
    ELSE Return([storage EXCEPT
                    !.generator = Put(@, generator,
                        [energy_generator EXCEPT !.current_production = production.v]),
                    !.energy = Put(@, now,
                        EnergyToken(now, generator, energy_amount_kwh, now,
                                    expiry_timestamp.v, FALSE)),
                    !.balance[generator] = new_balance.v,
                    !.total_supply = new_supply.v], now)

mint_energy_tokens(auth, generator, energy_amount_kwh, expiry_hours, oracle_proof) ==
    IF auth # generator THEN Panic(storage, "require_auth")
    ELSE IF generator \notin DOMAIN storage.generator
    THEN Panic(storage, "expect: Generator not found")
    ELSE
    LET energy_generator == storage.generator[generator]
        room == add(energy_generator.current_production, energy_amount_kwh)
    IN
    IF ~energy_generator.is_active THEN Panic(storage, "GeneratorInactive")
    ELSE IF Traps(room) THEN Panic(storage, "arithmetic overflow")
    ELSE IF room.v > energy_generator.capacity_kw
    THEN Panic(storage, "InsufficientCapacity")
    ELSE
    LET current_time == now
        token_id == current_time
        seconds == mul(expiry_hours, SECONDS_PER_HOUR)
        expiry_timestamp == add(current_time, seconds.v)
    IN
    IF Traps(seconds) \/ Traps(expiry_timestamp)
    THEN Panic(storage, "arithmetic overflow")
    ELSE
    LET energy_token == EnergyToken(token_id, generator, energy_amount_kwh,
                                    current_time, expiry_timestamp.v, FALSE)
        production == add(energy_generator.current_production, energy_amount_kwh)
        current_balance == storage.balance[generator]
        supply == storage.total_supply
        st1 == [storage EXCEPT
                  !.generator = Put(@, generator,
                      [energy_generator EXCEPT !.current_production = production.v])]
        st2 == [st1 EXCEPT !.energy = Put(@, token_id, energy_token)]
        new_balance == add(current_balance, energy_amount_kwh)
        st3 == [st2 EXCEPT !.balance[generator] = new_balance.v]
        new_supply == add(supply, energy_amount_kwh)
        st4 == [st3 EXCEPT !.total_supply = new_supply.v]
    IN
    IF Traps(production) THEN Panic(storage, "arithmetic overflow")
    ELSE IF Traps(new_balance) THEN Panic(st2, "arithmetic overflow")
    ELSE IF Traps(new_supply) THEN Panic(st3, "arithmetic overflow")
    ELSE Return(st4, token_id)

burn_energy_tokens(auth, consumer, token_id, amount) ==
    IF auth # consumer THEN Panic(storage, "require_auth")
    ELSE IF token_id \notin DOMAIN storage.energy
    THEN Panic(storage, "expect: Token not found")
    ELSE
    LET energy_token == storage.energy[token_id]
        consumer_balance == storage.balance[consumer]
    IN
    IF now > energy_token.expiry_timestamp THEN Panic(storage, "TokenNotFound")
    ELSE IF energy_token.is_consumed THEN Panic(storage, "AlreadyBurned")
    ELSE IF consumer_balance < amount THEN Panic(storage, "InsufficientBalance")
    ELSE IF energy_token.generator_id \notin DOMAIN storage.generator
    THEN Panic(storage, "expect: Generator not found")
    ELSE
    LET generator_data == storage.generator[energy_token.generator_id]
        production == sub(generator_data.current_production, amount)
        st1 == [storage EXCEPT
                  !.energy = Put(@, token_id, [energy_token EXCEPT !.is_consumed = TRUE])]
        st2 == [st1 EXCEPT !.balance[consumer] = sub(consumer_balance, amount).v]
        st3 == [st2 EXCEPT
                  !.generator = Put(@, energy_token.generator_id,
                      [generator_data EXCEPT !.current_production = production.v])]
        new_supply == sub(st3.total_supply, amount)
        st4 == [st3 EXCEPT !.total_supply = new_supply.v]
    IN
    IF Traps(production) THEN Panic(storage, "arithmetic overflow")
    ELSE IF Traps(new_supply) THEN Panic(st3, "arithmetic overflow")
    ELSE Return(st4, 0)

transfer(auth, from, to, amount) ==
    IF auth # from THEN Panic(storage, "require_auth")
    ELSE IF amount = 0 THEN Panic(storage, "InvalidAmount")
    ELSE
    LET from_balance == storage.balance[from]
        to_balance == storage.balance[to]
        st1 == [storage EXCEPT !.balance[from] = sub(from_balance, amount).v]
        credited == add(to_balance, amount)
        st2 == [st1 EXCEPT !.balance[to] = credited.v]
    IN
    IF from_balance < amount THEN Panic(storage, "InsufficientBalance")
    ELSE IF Traps(credited) THEN Panic(st1, "arithmetic overflow")
    ELSE Return(st2, 0)

\* approve adding to the stored allowance
approve_accumulate(auth, owner, spender, amount) ==
    IF auth # owner THEN Panic(storage, "require_auth")
    ELSE Return([storage EXCEPT !.allowance[<<owner, spender>>] =
                                    add(@, amount).v], 0)

approve(auth, owner, spender, amount) ==
    IF auth # owner THEN Panic(storage, "require_auth")
    ELSE Return([storage EXCEPT !.allowance[<<owner, spender>>] = amount], 0)

\* transfer_from checking the balance before the allowance
transfer_from_balance_first(auth, spender, from, to, amount) ==
    IF auth # spender THEN Panic(storage, "require_auth")
    ELSE IF amount = 0 THEN Panic(storage, "InvalidAmount")
    ELSE
    LET current_allowance == storage.allowance[<<from, spender>>]
        from_balance == storage.balance[from]
        to_balance == storage.balance[to]
        st1 == [storage EXCEPT !.balance[from] = sub(from_balance, amount).v]
        credited == add(to_balance, amount)
        st2 == [st1 EXCEPT !.balance[to] = credited.v]
        st3 == [st2 EXCEPT !.allowance[<<from, spender>>] =
                                sub(current_allowance, amount).v]
    IN
    IF from_balance < amount THEN Panic(storage, "InsufficientBalance")
    ELSE IF current_allowance < amount THEN Panic(storage, "InsufficientAllowance")
    ELSE IF Traps(credited) THEN Panic(st1, "arithmetic overflow")
    ELSE Return(st3, 0)

transfer_from(auth, spender, from, to, amount) ==
    IF auth # spender THEN Panic(storage, "require_auth")
    ELSE IF amount = 0 THEN Panic(storage, "InvalidAmount")
    ELSE
    LET current_allowance == storage.allowance[<<from, spender>>]
        from_balance == storage.balance[from]
        to_balance == storage.balance[to]
        st1 == [storage EXCEPT !.balance[from] = sub(from_balance, amount).v]
        credited == add(to_balance, amount)
        st2 == [st1 EXCEPT !.balance[to] = credited.v]
        st3 == [st2 EXCEPT !.allowance[<<from, spender>>] =
                                sub(current_allowance, amount).v]
    IN
    IF current_allowance < amount THEN Panic(storage, "InsufficientAllowance")
    ELSE IF from_balance < amount THEN Panic(storage, "InsufficientBalance")
    ELSE IF Traps(credited) THEN Panic(st1, "arithmetic overflow")
    ELSE Return(st3, 0)

set_generator_status(auth, generator, is_active) ==
    IF storage.admin = {} THEN Panic(storage, "expect: Not authorized")
    ELSE IF auth \notin storage.admin THEN Panic(storage, "require_auth")
    ELSE IF generator \notin DOMAIN storage.generator
    THEN Panic(storage, "expect: Generator not found")
    ELSE Return([storage EXCEPT
                    !.generator = Put(@, generator,
                        [storage.generator[generator] EXCEPT !.is_active = is_active])], 0)

\* update_generator_capacity refusing a capacity below current_production
update_generator_capacity_validated(auth, generator, new_capacity_kw) ==
    IF storage.admin = {} THEN Panic(storage, "expect: Not authorized")
    ELSE IF auth \notin storage.admin THEN Panic(storage, "require_auth")
    ELSE IF generator \notin DOMAIN storage.generator
    THEN Panic(storage, "expect: Generator not found")
    ELSE IF new_capacity_kw < storage.generator[generator].current_production
    THEN Panic(storage, "InsufficientCapacity")
    ELSE Return([storage EXCEPT
                    !.generator = Put(@, generator,
                        [storage.generator[generator] EXCEPT !.capacity_kw = new_capacity_kw])], 0)

update_generator_capacity(auth, generator, new_capacity_kw) ==
    IF storage.admin = {} THEN Panic(storage, "expect: Not authorized")
    ELSE IF auth \notin storage.admin THEN Panic(storage, "require_auth")
    ELSE IF generator \notin DOMAIN storage.generator
    THEN Panic(storage, "expect: Generator not found")
    ELSE Return([storage EXCEPT
                    !.generator = Put(@, generator,
                        [storage.generator[generator] EXCEPT !.capacity_kw = new_capacity_kw])], 0)

---------------------------------------------------------------------------
(* The host runs one entry point: its writes are kept when it returns and   *)
(* discarded when it panics.  last names the latest call that returned and  *)
(* its return value; nops counts the calls that returned.                   *)

\* a host that keeps the writes of a call that panicked
CommitWrites(r) == r.st

Commit(r) == IF r.res = "Ok" THEN r.st ELSE storage

Invoke(op, r) ==
    /\ nops < MaxOps
    /\ storage' = Commit(r)
    /\ last' = IF r.res = "Ok" THEN [op |-> op, ret |-> r.ret] ELSE last
    /\ nops' = IF r.res = "Ok" THEN nops + 1 ELSE nops
    /\ UNCHANGED <<now, overflow_checks>>

Init ==
    /\ storage = EmptyStorage
    /\ now = 0
    /\ overflow_checks \in BOOLEAN
    /\ last = [op |-> "none", ret |-> 0]
    /\ nops = 0
    /\ burned = {}

Initialize ==
    \E auth \in Address, admin \in Address, name \in Names, symbol \in Names,
       decimals \in Decimals :
        /\ Invoke("initialize", initialize(auth, admin, name, symbol, decimals))
        /\ UNCHANGED burned

RegisterGenerator ==
    \E auth \in Address, generator \in Address, capacity_kw \in Amounts :
        /\ Invoke("register_generator", register_generator(auth, generator, capacity_kw))
        /\ UNCHANGED burned

MintEnergyTokens ==
    \E auth \in Address, generator \in Address, energy_amount_kwh \in Amounts,
       expiry_hours \in Hours, oracle_proof \in Proofs :
        /\ Invoke("mint_energy_tokens",
                  mint_energy_tokens(auth, generator, energy_amount_kwh,
                                     expiry_hours, oracle_proof))
        /\ UNCHANGED burned

BurnEnergyTokens ==
    \E auth \in Address, consumer \in Address, token_id \in Times, amount \in Amounts :
        LET r == burn_energy_tokens(auth, consumer, token_id, amount) IN
        /\ Invoke("burn_energy_tokens", r)
        /\ burned' = IF r.res = "Ok" THEN burned \cup {token_id} ELSE burned

Transfer ==
    \E auth \in Address, from \in Address, to \in Address, amount \in Amounts :
        /\ Invoke("transfer", transfer(auth, from, to, amount))
        /\ UNCHANGED burned

Approve ==
    \E auth \in Address, owner \in Address, spender \in Address, amount \in Amounts :
        /\ Invoke("approve", approve(auth, owner, spender, amount))
        /\ UNCHANGED burned

TransferFrom ==
    \E auth \in Address, spender \in Address, from \in Address, to \in Address,
       amount \in Amounts :
        /\ Invoke("transfer_from", transfer_from(auth, spender, from, to, amount))
        /\ UNCHANGED burned

SetGeneratorStatus ==
    \E auth \in Address, generator \in Address, is_active \in BOOLEAN :
        /\ Invoke("set_generator_status", set_generator_status(auth, generator, is_active))
        /\ UNCHANGED burned

UpdateGeneratorCapacity ==
    \E auth \in Address, generator \in Address, new_capacity_kw \in Amounts :
        /\ Invoke("update_generator_capacity",
                  update_generator_capacity(auth, generator, new_capacity_kw))
        /\ UNCHANGED burned

\* the ledger closes: the timestamp moves forward
Tick ==
    /\ \E t \in Times : t > now /\ now' = t
    /\ UNCHANGED <<storage, overflow_checks, last, nops, burned>>

Next ==
    \/ Initialize
    \/ RegisterGenerator
    \/ MintEnergyTokens
    \/ BurnEnergyTokens
    \/ Transfer
    \/ Approve
    \/ TransferFrom
    \/ SetGeneratorStatus
    \/ UpdateGeneratorCapacity
    \/ Tick

Spec == Init /\ [][Next]_vars

\* The same contract used so that no generator is registered twice:
\* register_generator is called on addresses without a record only.
RegisterGeneratorOnce ==
    \E auth \in Address, generator \in Address \ DOMAIN storage.generator,
       capacity_kw \in Amounts :
        /\ Invoke("register_generator", register_generator(auth, generator, capacity_kw))
        /\ UNCHANGED burned

NextOnce ==
    \/ Initialize
    \/ RegisterGeneratorOnce
    \/ MintEnergyTokens
    \/ BurnEnergyTokens
    \/ Transfer
    \/ Approve
    \/ TransferFrom
    \/ SetGeneratorStatus
    \/ UpdateGeneratorCapacity
    \/ Tick

SpecOnce == Init /\ [][NextOnce]_vars

---------------------------------------------------------------------------
(* P holds of the outcome of every call the model offers in this state.     *)

AllCalls(P(_)) ==
    /\ \A auth \in Address, admin \in Address, name \in Names, symbol \in Names,
          decimals \in Decimals :
           P(initialize(auth, admin, name, symbol, decimals))
    /\ \A auth \in Address, generator \in Address, capacity_kw \in Amounts :
           P(register_generator(auth, generator, capacity_kw))
    /\ \A auth \in Address, generator \in Address, amount \in Amounts,
          hours \in Hours, proof \in Proofs :
           P(mint_energy_tokens(auth, generator, amount, hours, proof))
    /\ \A auth \in Address, consumer \in Address, token_id \in Times,
          amount \in Amounts :
           P(burn_energy_tokens(auth, consumer, token_id, amount))
    /\ \A auth \in Address, from \in Address, to \in Address, amount \in Amounts :
           P(transfer(auth, from, to, amount))
    /\ \A auth \in Address, owner \in Address, spender \in Address,
          amount \in Amounts :
           P(approve(auth, owner, spender, amount))
    /\ \A auth \in Address, spender \in Address, from \in Address, to \in Address,
          amount \in Amounts :
           P(transfer_from(auth, spender, from, to, amount))
    /\ \A auth \in Address, generator \in Address, is_active \in BOOLEAN :
           P(set_generator_status(auth, generator, is_active))
    /\ \A auth \in Address, generator \in Address, new_capacity_kw \in Amounts :
           P(update_generator_capacity(auth, generator, new_capacity_kw))

\* P(auth, r) holds of every call of an admin-gated entry point, auth being
\* the address that authorized it and r its outcome
AdminCalls(P(_, _)) ==
    /\ \A auth \in Address, generator \in Address, capacity_kw \in Amounts :
           P(auth, register_generator(auth, generator, capacity_kw))
    /\ \A auth \in Address, generator \in Address, is_active \in BOOLEAN :
           P(auth, set_generator_status(auth, generator, is_active))
    /\ \A auth \in Address, generator \in Address, new_capacity_kw \in Amounts :
           P(auth, update_generator_capacity(auth, generator, new_capacity_kw))

RECURSIVE SumOver(_, _)
SumOver(f, S) ==
    IF S = {} THEN 0
    ELSE LET x == CHOOSE y \in S : TRUE IN f[x] + SumOver(f, S \ {x})

\* the balances after n moved from one account to another, in true integers
Moved(balance, from, to, n) ==
    LET debited == [balance EXCEPT ![from] = @ - n]
    IN [debited EXCEPT ![to] = @ + n]

\* this step is the call op with outcome r, and it returned
Returned(op, r) ==
    /\ r.res = "Ok"
    /\ nops' = nops + 1
    /\ last' = [op |-> op, ret |-> r.ret]
    /\ storage' = Commit(r)

\* the call with outcome r returns and leaves the balance of a lower
Debits(r, a) == r.res = "Ok" /\ r.st.balance[a] < storage.balance[a]

---------------------------------------------------------------------------
(* Claims *)

\* C1 (conservation): in every reachable state the sum of all account
\* balances equals total_supply().
C1_Conservation ==
    SumOver(storage.balance, Address) = total_supply

\* C2 (no double-spend): once a burn_energy_tokens call on a credit id has
\* succeeded, no later burn_energy_tokens call on that id succeeds, whoever the
\* consumer and whatever the amount, the ledger time and the calls in between
\* (the claim's failure with AlreadyBurned is in particular a failure).
C2_NoDoubleSpend ==
    \A token_id \in burned : \A consumer \in Address, amount \in Amounts :
        burn_energy_tokens(consumer, consumer, token_id, amount).res # "Ok"

C4_Capacity ==
    \A g \in DOMAIN storage.generator :
        storage.generator[g].current_production <= storage.generator[g].capacity_kw

\* C5 (self-transfer): a successful transfer(A, A, n) with 0 < n <= balance(A)
\* leaves every balance and total supply unchanged.
C5_SelfTransferNoOp ==
    [][\A a \in Address, n \in Amounts :
          (0 < n /\ n <= balance_of(a) /\ Returned("transfer", transfer(a, a, a, n)))
              => /\ storage'.balance = storage.balance
                 /\ storage'.total_supply = storage.total_supply]_vars

\* C6 (transfer correctness): for distinct A and B, transfer(A, B, n) with
\* n > 0 and balance(A) >= n succeeds and moves n from A to B, changing
\* nothing else; with balance(A) < n it fails with InsufficientBalance and
\* changes nothing; with n = 0 it fails with InvalidAmount.
C6_TransferCorrect ==
    \A a \in Address, n \in Amounts : \A b \in Address \ {a} :
        LET r == transfer(a, a, b, n) IN
        /\ (n > 0 /\ balance_of(a) >= n)
             => /\ r.res = "Ok"
                /\ Commit(r) = [storage EXCEPT !.balance = Moved(@, a, b, n)]
        /\ (n > 0 /\ balance_of(a) < n)
             => r.res = "InsufficientBalance" /\ Commit(r) = storage
        /\ (n = 0) => r.res = "InvalidAmount"

\* C7 (allowance spend-down): a successful transfer_from(S, O, R, b) leaves
\* allowance(O, S) lowered by b and every other allowance unchanged, debits O
\* by b and credits R by b.
C7_AllowanceSpendDown ==
    [][\A sp \in Address, o \in Address, rc \in Address, b \in Amounts :
          Returned("transfer_from", transfer_from(sp, sp, o, rc, b))
              => /\ storage'.allowance =
                        [storage.allowance EXCEPT ![<<o, sp>>] = @ - b]
                 /\ storage'.balance = Moved(storage.balance, o, rc, b)]_vars

\* C8 (mint effects): a successful mint_energy_tokens(G, amount, expiry_hours,
\* proof) returns a credit id, stores under it a credit of G with that amount,
\* expiry = now + expiry_hours * 3600 and consumed = false, and adds amount to
\* G's current_production, G's balance and total supply, changing no other
\* balance, allowance or generator record.
C8_MintEffects ==
    [][\A g \in Address, amount \in Amounts, hours \in Hours, proof \in Proofs :
          Returned("mint_energy_tokens",
                   mint_energy_tokens(g, g, amount, hours, proof))
              => /\ last'.ret \in DOMAIN storage'.energy
                 /\ storage'.energy[last'.ret] =
                        EnergyToken(last'.ret, g, amount, now,
                                    now + hours * SECONDS_PER_HOUR, FALSE)
                 /\ storage'.generator =
                        Put(storage.generator, g,
                             [storage.generator[g] EXCEPT
                                 !.current_production = @ + amount])
                 /\ storage'.balance = [storage.balance EXCEPT ![g] = @ + amount]
                 /\ storage'.total_supply = storage.total_supply + amount
                 /\ storage'.allowance = storage.allowance]_vars

\* C9 (over-capacity mint): for a registered active generator G,
\* mint_energy_tokens(G, amount, ..) with current_production + amount > capacity
\* fails with InsufficientCapacity and leaves the state unchanged.
C9_OverCapacityRejected ==
    \A g \in DOMAIN storage.generator, amount \in Amounts, hours \in Hours,
       proof \in Proofs :
        LET r == mint_energy_tokens(g, g, amount, hours, proof)
            gen == storage.generator[g]
        IN
        (gen.is_active /\ gen.current_production + amount > gen.capacity_kw)
            => r.res = "InsufficientCapacity" /\ Commit(r) = storage

\* C10 (burn effects): a successful burn_energy_tokens(consumer, credit_id,
\* amount) lowers by exactly amount the consumer's balance, the
\* current_production of the credit's generator and total supply, and sets the
\* credit's consumed flag.
C10_BurnEffects ==
    [][\A consumer \in Address, token_id \in Times, amount \in Amounts :
          Returned("burn_energy_tokens",
                   burn_energy_tokens(consumer, consumer, token_id, amount))
              => LET g == storage.energy[token_id].generator_id IN
                 /\ storage'.balance = [storage.balance EXCEPT ![consumer] = @ - amount]
                 /\ storage'.generator[g].current_production =
                        storage.generator[g].current_production - amount
                 /\ storage'.total_supply = storage.total_supply - amount
                 /\ storage'.energy[token_id].is_consumed]_vars

\* C11 (initialize once) as claimed: once the contract is initialized, every
\* initialize call fails with AlreadyInitialized and changes nothing.
C11_AlreadyInitialized ==
    storage.admin # {} =>
        \A auth \in Address, admin \in Address, name \in Names, symbol \in Names,
           decimals \in Decimals :
            LET r == initialize(auth, admin, name, symbol, decimals) IN
            r.res = "AlreadyInitialized" /\ Commit(r) = storage

\* C11 as amended: on a contract that is not initialized, initialize
\* authorized by the supplied admin succeeds and stores the admin, the metadata
\* (name, symbol, decimals) and total supply 0; once it is initialized every
\* initialize call, with any admin and arguments, fails with NotAuthorized and
\* leaves the storage unchanged; an initialize call returns only on a contract
\* that is not initialized and the admin, once stored, never changes, so at
\* most one initialize call succeeds.
C11_InitializeOnce ==
    /\ [](\A auth \in Address, admin \in Address, name \in Names, symbol \in Names,
             decimals \in Decimals :
              LET r == initialize(auth, admin, name, symbol, decimals) IN
              /\ (storage.admin = {} /\ auth = admin)
                   => /\ r.res = "Ok"
                      /\ Commit(r) = [storage EXCEPT
                             !.admin = {admin},
                             !.metadata = {TokenMetadata(name, symbol, decimals, 0)},
                             !.total_supply = 0]
              /\ storage.admin # {}
                   => r.res = "NotAuthorized" /\ Commit(r) = storage)
    /\ [][/\ (last'.op = "initialize" /\ nops' = nops + 1) => storage.admin = {}
          /\ storage.admin # {} => storage'.admin = storage.admin]_vars

\* C11 witness: an initialized contract that has run further calls and on
\* which an initialize call naming another admin, authorized by it, is refused.
C11_Witness ==
    /\ storage.admin # {}
    /\ nops >= 2
    /\ \E admin \in Address \ storage.admin, name \in Names, decimals \in Decimals :
           initialize(admin, admin, name, name, decimals).res # "Ok"

\* C12 (admin gating) as claimed: register_generator, set_generator_status and
\* update_generator_capacity return only when authorized by the stored admin;
\* authorized by another principal they fail with NotAuthorized, and before
\* any initialize with NotInitialized, changing nothing.
C12_AdminGatingErrors ==
    AdminCalls(LAMBDA auth, r :
        /\ r.res = "Ok" => auth \in storage.admin
        /\ storage.admin = {} => r.res = "NotInitialized" /\ Commit(r) = storage
        /\ (storage.admin # {} /\ auth \notin storage.admin)
             => r.res = "NotAuthorized" /\ Commit(r) = storage)

\* C12 as amended: the three entry points return only when authorized by the
\* stored admin; authorized by another principal they fail in require_auth
\* (the host's authorization failure, not the contract error NotAuthorized),
\* and before any initialize they panic in expect("Not authorized"); in both
\* cases the storage, every generator record included, is unchanged.
C12_AdminGating ==
    AdminCalls(LAMBDA auth, r :
        /\ r.res = "Ok" => auth \in storage.admin
        /\ storage.admin = {}
             => r.res = "expect: Not authorized" /\ Commit(r) = storage
        /\ (storage.admin # {} /\ auth \notin storage.admin)
             => r.res = "require_auth" /\ Commit(r) = storage)

\* C12 witness: a generator is registered and a principal other than the
\* admin asks to deactivate it.
C12_Witness ==
    /\ storage.admin # {}
    /\ \E g \in DOMAIN storage.generator, auth \in Address \ storage.admin :
           set_generator_status(auth, g, FALSE).res # "Ok"

\* C13 (credit id uniqueness): a successful mint_energy_tokens returns a
\* credit id under which no credit is stored yet, so it differs from the id of
\* every earlier mint and replaces no credit record.
C13_UniqueCreditId ==
    [][\A g \in Address, amount \in Amounts, hours \in Hours, proof \in Proofs :
          Returned("mint_energy_tokens",
                   mint_energy_tokens(g, g, amount, hours, proof))
              => last'.ret \notin DOMAIN storage.energy]_vars

\* C14 (credit lifecycle): a credit record, once stored, is never removed, its
\* generator, amount, creation and expiry timestamps never change, and its
\* consumed flag changes only from false to true and only in a
\* burn_energy_tokens call that returns.
C14_CreditLifecycle ==
    [][\A id \in DOMAIN storage.energy :
          /\ id \in DOMAIN storage'.energy
          /\ LET old == storage.energy[id]
                 new == storage'.energy[id]
             IN /\ new.generator_id = old.generator_id
                /\ new.amount_kwh = old.amount_kwh
                /\ new.creation_timestamp = old.creation_timestamp
                /\ new.expiry_timestamp = old.expiry_timestamp
                /\ old.is_consumed => new.is_consumed
                /\ new.is_consumed # old.is_consumed
                     => last'.op = "burn_energy_tokens" /\ nops' = nops + 1]_vars

\* C15 (expiry): a burn_energy_tokens on a credit at a ledger time after its
\* stored expiry timestamp fails with TokenNotFound and changes nothing, and a
\* burn at the ledger time the credit was minted at, which is not after
\* mint time + expiry_hours * 3600 whatever expiry_hours, is not rejected for
\* expiry.
C15_Expiry ==
    \A token_id \in DOMAIN storage.energy, consumer \in Address, amount \in Amounts :
        LET r == burn_energy_tokens(consumer, consumer, token_id, amount)
            energy_token == storage.energy[token_id]
        IN
        /\ now > energy_token.expiry_timestamp
             => r.res = "TokenNotFound" /\ Commit(r) = storage
        /\ now = energy_token.creation_timestamp => r.res # "TokenNotFound"

\* C16 (no production underflow): a burn_energy_tokens whose amount exceeds
\* the current_production of the credit's generator fails with one of the
\* contract's errors and leaves the storage unchanged.
C16_NoProductionUnderflow ==
    \A token_id \in DOMAIN storage.energy, consumer \in Address, amount \in Amounts :
        LET r == burn_energy_tokens(consumer, consumer, token_id, amount)
            g == storage.energy[token_id].generator_id
        IN
        (g \in DOMAIN storage.generator
            /\ amount > storage.generator[g].current_production)
            => r.res \in STRGRIDError /\ Commit(r) = storage

\* C17 (transfer_from failures): transfer_from(spender, from, to, amount)
\* fails with InvalidAmount if amount is zero, otherwise with
\* InsufficientAllowance if allowance(from, spender) < amount, whatever the
\* balance of from, otherwise with InsufficientBalance if balance(from) <
\* amount; in each case the storage is unchanged.
C17_TransferFromFailures ==
    \A spender \in Address, from \in Address, to \in Address, amount \in Amounts :
        LET r == transfer_from(spender, spender, from, to, amount) IN
        /\ amount = 0 => r.res = "InvalidAmount" /\ Commit(r) = storage
        /\ (amount > 0 /\ allowance(from, spender) < amount)
             => r.res = "InsufficientAllowance" /\ Commit(r) = storage
        /\ (amount > 0 /\ allowance(from, spender) >= amount
                /\ balance_of(from) < amount)
             => r.res = "InsufficientBalance" /\ Commit(r) = storage

\* C17 witness: an owner with a positive balance has approved a spender for
\* less than an amount that exceeds the balance too, and another transfer_from
\* is within the allowance but beyond the balance.
C17_Witness ==
    /\ \E spender \in Address, from \in Address, amount \in Amounts :
           /\ 0 < allowance(from, spender) /\ allowance(from, spender) < amount
           /\ 0 < balance_of(from) /\ balance_of(from) < amount
    /\ \E spender \in Address, from \in Address, amount \in Amounts :
           /\ amount > 0 /\ allowance(from, spender) >= amount
           /\ balance_of(from) < amount

\* C18 (approve overwrites): approve(O, S, a) by O succeeds whatever the
\* stored allowance and O's balance and sets allowance(O, S) to a, changing no
\* balance and no other allowance (so approve a then approve b leaves b);
\* while allowance(O, S) is 0 every transfer_from(S, O, ..) with a positive
\* amount fails, and an allowance of 0 stops being 0 only by an approve.
C18_ApproveOverwrites ==
    /\ [](\A o \in Address, s \in Address, a \in Amounts :
              LET r == approve(o, o, s, a) IN
              /\ r.res = "Ok"
              /\ Commit(r) = [storage EXCEPT !.allowance[<<o, s>>] = a])
    /\ [](\A o \in Address, s \in Address :
              allowance(o, s) = 0
                  => \A to \in Address, n \in Amounts \ {0} :
                         transfer_from(s, s, o, to, n).res # "Ok")
    /\ [][\A o \in Address, s \in Address :
              (allowance(o, s) = 0 /\ storage'.allowance[<<o, s>>] # 0)
                  => last'.op = "approve" /\ nops' = nops + 1]_vars

\* C18 witness: the latest call was an approve, some allowance exceeds its
\* owner's positive balance, and an allowance is 0 whose owner holds a balance.
C18_Witness ==
    /\ last.op = "approve"
    /\ \E o \in Address, s \in Address :
           balance_of(o) > 0 /\ allowance(o, s) > balance_of(o)
    /\ \E o \in Address, s \in Address :
           balance_of(o) > 0 /\ allowance(o, s) = 0

\* C19 (metadata total supply): on an initialized contract the total supply
\* in the record get_metadata() returns equals total_supply().
C19_MetadataTotalSupply ==
    storage.metadata # {} => get_metadata.total_supply = total_supply

\* C20 (inactive generators) as claimed: a mint by a registered generator
\* whose is_active is false fails with GeneratorInactive and changes nothing,
\* and a mint by an address that is not registered fails with
\* GeneratorNotFound.
C20_InactiveOrNotFound ==
    \A g \in Address, amount \in Amounts, hours \in Hours, proof \in Proofs :
        LET r == mint_energy_tokens(g, g, amount, hours, proof) IN
        /\ (g \in DOMAIN storage.generator /\ ~storage.generator[g].is_active)
             => r.res = "GeneratorInactive" /\ Commit(r) = storage
        /\ g \notin DOMAIN storage.generator => r.res = "GeneratorNotFound"

\* C20 as amended: a mint by a registered generator whose is_active is false
\* fails with GeneratorInactive and changes nothing; is_active goes from false
\* to true only in a set_generator_status or register_generator call that
\* returns; a mint by an address that is not registered panics in
\* expect("Generator not found") and changes nothing.
C20_InactiveCannotMint ==
    /\ [](\A g \in Address, amount \in Amounts, hours \in Hours, proof \in Proofs :
              LET r == mint_energy_tokens(g, g, amount, hours, proof) IN
              /\ (g \in DOMAIN storage.generator /\ ~storage.generator[g].is_active)
                   => r.res = "GeneratorInactive" /\ Commit(r) = storage
              /\ g \notin DOMAIN storage.generator
                   => r.res = "expect: Generator not found" /\ Commit(r) = storage)
    /\ [][\A g \in DOMAIN storage.generator :
              (~storage.generator[g].is_active /\ storage'.generator[g].is_active)
                  => /\ last'.op \in {"set_generator_status", "register_generator"}
                     /\ nops' = nops + 1]_vars

\* C20 witness: a generator that has minted is inactive with room left under
\* its capacity, and another address is not registered.
C20_Witness ==
    /\ \E g \in DOMAIN storage.generator :
           /\ ~storage.generator[g].is_active
           /\ g \in {storage.energy[id].generator_id : id \in DOMAIN storage.energy}
           /\ storage.generator[g].current_production < storage.generator[g].capacity_kw
    /\ Address \ DOMAIN storage.generator # {}

\* C21 (register_generator): authorized by the admin, register_generator(G,
\* capacity) with capacity = 0 fails with InvalidAmount and changes nothing;
\* with capacity > 0 it succeeds, whether or not G is registered, and leaves G's
\* record with the given capacity, current_production = 0, active = true and
\* registration time = the ledger time, changing nothing else (no balance, no
\* credit, not total supply, no other generator).
C21_RegisterGenerator ==
    \A admin \in storage.admin, g \in Address, capacity \in Amounts :
        LET r == register_generator(admin, g, capacity) IN
        /\ capacity = 0 => r.res = "InvalidAmount" /\ Commit(r) = storage
        /\ capacity > 0
             => /\ r.res = "Ok"
                /\ Commit(r) = [storage EXCEPT
                       !.generator = Put(@, g, [address |-> g,
                                                capacity_kw |-> capacity,
                                                current_production |-> 0,
                                                is_active |-> TRUE,
                                                registration_date |-> now])]

\* C21 witness: a registered generator with outstanding production and an
\* unconsumed credit, inactive and registered at an earlier ledger time, so that
\* registering it again resets production, flag and registration time.
C21_Witness ==
    \E g \in DOMAIN storage.generator :
        /\ storage.generator[g].current_production > 0
        /\ ~storage.generator[g].is_active
        /\ storage.generator[g].registration_date < now
        /\ \E id \in DOMAIN storage.energy : storage.energy[id].generator_id = g

\* C22 (admin updates) as claimed: authorized by the admin, on a registered G
\* set_generator_status changes only G's active flag and
\* update_generator_capacity only G's capacity, whatever the new capacity; on
\* an address that is not registered both fail with GeneratorNotFound.
C22_AdminUpdatesNotFound ==
    \A admin \in storage.admin, g \in Address :
        /\ \A is_active \in BOOLEAN :
               LET r == set_generator_status(admin, g, is_active) IN
               IF g \in DOMAIN storage.generator
               THEN /\ r.res = "Ok"
                    /\ Commit(r) = [storage EXCEPT !.generator[g].is_active = is_active]
               ELSE r.res = "GeneratorNotFound" /\ Commit(r) = storage
        /\ \A new_capacity \in Amounts :
               LET r == update_generator_capacity(admin, g, new_capacity) IN
               IF g \in DOMAIN storage.generator
               THEN /\ r.res = "Ok"
                    /\ Commit(r) = [storage EXCEPT !.generator[g].capacity_kw = new_capacity]
               ELSE r.res = "GeneratorNotFound" /\ Commit(r) = storage

\* C22 as amended: the same, except that on an address that is not registered
\* both panic in expect("Generator not found") and change nothing.
C22_AdminUpdates ==
    \A admin \in storage.admin, g \in Address :
        /\ \A is_active \in BOOLEAN :
               LET r == set_generator_status(admin, g, is_active) IN
               IF g \in DOMAIN storage.generator
               THEN /\ r.res = "Ok"
                    /\ Commit(r) = [storage EXCEPT !.generator[g].is_active = is_active]
               ELSE r.res = "expect: Generator not found" /\ Commit(r) = storage
        /\ \A new_capacity \in Amounts :
               LET r == update_generator_capacity(admin, g, new_capacity) IN
               IF g \in DOMAIN storage.generator
               THEN /\ r.res = "Ok"
                    /\ Commit(r) = [storage EXCEPT !.generator[g].capacity_kw = new_capacity]
               ELSE r.res = "expect: Generator not found" /\ Commit(r) = storage

\* C22 witness: one address is registered, with outstanding production that
\* a new capacity of 0 lies below, and another address is not registered.
C22_Witness ==
    /\ storage.admin # {}
    /\ \E g \in DOMAIN storage.generator : storage.generator[g].current_production > 0
    /\ Address \ DOMAIN storage.generator # {}

\* C23 (production equals supply): while no generator is registered twice,
\* the sum of current_production over the registered generators equals
\* total_supply().
C23_ProductionEqualsSupply ==
    SumOver([g \in DOMAIN storage.generator |->
                 storage.generator[g].current_production],
            DOMAIN storage.generator) = total_supply

\* C24 (no debit without consent): a call that returns lowers the balance of
\* an account only if it is a transfer from that account or a
\* burn_energy_tokens by it, authorized by the account, or a transfer_from
\* that account authorized by a spender whose allowance from the account is at
\* least the amount debited; no other call lowers any balance.
C24_NoDebitWithoutConsent ==
    \A a \in Address :
        /\ \A auth \in Address, from \in Address, to \in Address, amount \in Amounts :
               Debits(transfer(auth, from, to, amount), a) => auth = a /\ from = a
        /\ \A auth \in Address, consumer \in Address, token_id \in Times,
              amount \in Amounts :
               Debits(burn_energy_tokens(auth, consumer, token_id, amount), a)
                   => auth = a /\ consumer = a
        /\ \A auth \in Address, spender \in Address, from \in Address,
              to \in Address, amount \in Amounts :
               LET r == transfer_from(auth, spender, from, to, amount) IN
               Debits(r, a)
                   => /\ auth = spender /\ from = a
                      /\ allowance(a, spender) >= storage.balance[a] - r.st.balance[a]
        /\ \A auth \in Address, generator \in Address, amount \in Amounts,
              hours \in Hours, proof \in Proofs :
               ~Debits(mint_energy_tokens(auth, generator, amount, hours, proof), a)
        /\ \A auth \in Address, owner \in Address, spender \in Address,
              amount \in Amounts :
               ~Debits(approve(auth, owner, spender, amount), a)
        /\ \A auth \in Address, admin \in Address, name \in Names, symbol \in Names,
              decimals \in Decimals :
               ~Debits(initialize(auth, admin, name, symbol, decimals), a)
        /\ AdminCalls(LAMBDA auth, r : ~Debits(r, a))

\* C25 (nothing before initialize): while no admin is stored there is no
\* generator record and no credit record, total supply is 0 and every balance
\* is 0, and no register_generator and no mint_energy_tokens call returns.
C25_NothingBeforeInitialize ==
    storage.admin = {} =>
        /\ DOMAIN storage.generator = {}
        /\ DOMAIN storage.energy = {}
        /\ total_supply = 0
        /\ \A a \in Address : balance_of(a) = 0
        /\ \A auth \in Address, generator \in Address, capacity_kw \in Amounts :
               register_generator(auth, generator, capacity_kw).res # "Ok"
        /\ \A auth \in Address, generator \in Address, amount \in Amounts,
              hours \in Hours, proof \in Proofs :
               mint_energy_tokens(auth, generator, amount, hours, proof).res # "Ok"

\* C25 witness: calls have returned and the ledger has moved on, and still no
\* admin is stored.
C25_Witness ==
    /\ storage.admin = {}
    /\ nops >= 2
    /\ now > 0

\* C26 (no overflow bypass): a mint_energy_tokens by a registered generator
\* returns only if current_production + amount, as integers, is at most the
\* capacity, and then stores current_production, balance and total supply
\* raised by amount as integers, none of them wrapped.
C26_NoOverflowBypass ==
    \A g \in DOMAIN storage.generator, amount \in Amounts, hours \in Hours,
       proof \in Proofs :
        LET r == mint_energy_tokens(g, g, amount, hours, proof)
            gen == storage.generator[g]
        IN
        r.res = "Ok"
            => /\ gen.current_production + amount <= gen.capacity_kw
               /\ r.st.generator[g].current_production = gen.current_production + amount
               /\ r.st.balance[g] = storage.balance[g] + amount
               /\ r.st.total_supply = storage.total_supply + amount

====
